---------------------------- MODULE Spec2Model ----------------------------
(***************************************************************************)
(* Model of inferelator_ng/distributed/kvs_controller.py: the KVSController *)
(* class (_get_env, own_check, sync_processes, get, process_results,        *)
(* master_remove_key) and the ownCheck generator, run by NProc processes    *)
(* that share one KVS server and one file system.                           *)
(*                                                                          *)
(* Every KVS primitive (put, blocking get, blocking view) is one atomic     *)
(* step; the local computation that follows a primitive up to the next one  *)
(* is part of the same step.                                                *)
(***************************************************************************)
EXTENDS Integers, Sequences, FiniteSets, TLC

\* ------------------------------------------------------------- bounds
NProc == 2          \* number of processes (cls.tasks); ranks 0..NProc-1
MaxChunk == 2       \* chunk sizes 1..MaxChunk
MaxLen == 2         \* longest sequence argument of a task

\* ------------------------------------------------- program constants
DEFAULT_MASTER == 0

GET_COUNT == "kvs_get"
TMP_FILE_SYNC == "tmp_file_read"
POST_GET_SYNC == "post_get"
PILEUP_DATA == "data_pileup"
FINAL_DATA == "final_data"
DEFAULT_PREF == ""

Procs == 0 .. (NProc - 1)

\* cls.tasks: the number of participants (SLURM_NTASKS)
tasks == NProc

\* (a variant that takes every rank from the master's up for the master)
is_master_from(p) == p >= DEFAULT_MASTER

\* cls.is_master, as _get_env sets it
is_master(p) == p = DEFAULT_MASTER

\* wkey / ckey of sync_processes
wkey(pref) == pref \o "_wait"
ckey(pref) == pref \o "_continue"

Prefs == {DEFAULT_PREF, TMP_FILE_SYNC, POST_GET_SYNC}
Keys == {GET_COUNT, PILEUP_DATA, FINAL_DATA}
          \cup {wkey(x) : x \in Prefs} \cup {ckey(x) : x \in Prefs}

\* ---------------------------------------------------- python values
PyNone == [ty |-> "None", v |-> <<>>]
PyList(l) == [ty |-> "list", v |-> l]
PyDict(d) == [ty |-> "dict", v |-> d]
PyPath(n) == [ty |-> "path", v |-> n]
PyVal(x) == [ty |-> "value", v |-> <<x>>]

EmptyDict == [k \in {} |-> 0]

\* dict.update: the keys of d2 override those of d1
DictUpdate(d1, d2) ==
    [k \in (DOMAIN d1) \cup (DOMAIN d2) |-> IF k \in DOMAIN d2 THEN d2[k] ELSE d1[k]]

\* results[pos] = val
DictSet(d, k, x) == [j \in (DOMAIN d) \cup {k} |-> IF j = k THEN x ELSE d[j]]

\* ------------------------------------------------------------ tasks
\* An argument of the function tuple: a list (iterated over) or a literal.
ListArg(n) == [iter |-> TRUE, seq |-> [j \in 1 .. n |-> 2 * j + 1]]
LitArg(c) == [iter |-> FALSE, seq |-> <<c>>]

\* The argument lists dsk[result][1:] the model runs get on.
TaskArgs ==
    {<<ListArg(a)>> : a \in 0 .. MaxLen}
      \cup {<<ListArg(2), LitArg(2), ListArg(b)>> : b \in {0, 2}}
      \cup {<<LitArg(2), LitArg(4)>>, <<>>}

\* The task function: opaque to the controller; an encoding of its arguments
\* that tells every argument combination of a task from every other.
RECURSIVE FuncAcc(_, _)
FuncAcc(args, acc) ==
    IF args = <<>> THEN acc
    ELSE FuncAcc(Tail(args), acc * 8 + Head(args))

func(args) == FuncAcc(args, 0)

\* iter_args = [isinstance(arg, (tuple, list)) for arg in map_args]
iter_args(map_args) == [i \in 1 .. Len(map_args) |-> map_args[i].iter]

\* (a variant that counts the arguments, sequences or not)
SumLen(bs) == Len(bs)

\* sum(iter_args)
RECURSIVE SumBool(_)
SumBool(bs) == IF bs = <<>> THEN 0 ELSE (IF Head(bs) THEN 1 ELSE 0) + SumBool(Tail(bs))

\* iter_product: the arguments that are iterated over, in argument order
RECURSIVE iter_product(_)
iter_product(map_args) ==
    IF map_args = <<>> THEN <<>>
    ELSE IF Head(map_args).iter
         THEN <<Head(map_args).seq>> \o iter_product(Tail(map_args))
         ELSE iter_product(Tail(map_args))

\* itertools.product(*pools), as a list: result = [[]]; for pool in pools:
\* result = [x + [y] for x in result for y in pool]
ProductStep(result, pool) ==
    [k \in 1 .. (Len(result) * Len(pool)) |->
        Append(result[((k - 1) \div Len(pool)) + 1], pool[((k - 1) % Len(pool)) + 1])]

RECURSIVE ProductAcc(_, _)
ProductAcc(pools, result) ==
    IF pools = <<>> THEN result
    ELSE ProductAcc(Tail(pools), ProductStep(result, Head(pools)))

Product(pools) == ProductAcc(pools, << <<>> >>)

\* current_args of one iteration: iterated arguments taken from iterated_args
\* in order (iter_arg_idx), the others held fixed
RECURSIVE current_args(_, _)
current_args(map_args, iterated_args) ==
    IF map_args = <<>> THEN <<>>
    ELSE IF Head(map_args).iter
         THEN <<Head(iterated_args)>> \o current_args(Tail(map_args), Tail(iterated_args))
         ELSE <<Head(map_args).seq[1]>> \o current_args(Tail(map_args), iterated_args)

\* literal arguments as func receives them when nothing is iterated
RECURSIVE literal_args(_)
literal_args(map_args) ==
    IF map_args = <<>> THEN <<>>
    ELSE <<Head(map_args).seq[1]>> \o literal_args(Tail(map_args))


\* ------------------------------------------------------------ state
VARIABLES
    kvs,    \* the KVS server: for every key the FIFO queue of its entries
    fs,     \* the shared file system: the existing temp files and their contents
    cfg,    \* the arguments every process passes to the call it makes
    loc,    \* per process: control point and the local variables of its frames
    hist    \* history of the run (what was yielded, created, removed, read)

vars == <<kvs, fs, cfg, loc, hist>>

\* A queued value, with the process and the call (round) that enqueued it.
Entry(x, p) == [val |-> x, by |-> p, rnd |-> loc[p].round]

\* KVSClient.put: enqueue, never blocks
KvsPut(q, key, e) == [q EXCEPT ![key] = Append(@, e)]

\* (a variant that leaves the value in place, as view does)
KvsPeek(q, key) == q

\* KVSClient.get, once a value is there: dequeue the front value
KvsPop(q, key) == [q EXCEPT ![key] = Tail(@)]

\* KVSClient.get / view block until the key holds a value
KvsReady(key) == kvs[key] # <<>>

\* KVSClient.view: the front value, left in place
KvsFront(key) == Head(kvs[key])

FsWrite(f, name, data) ==
    [n \in (DOMAIN f) \cup {name} |-> IF n = name THEN data ELSE f[n]]

FsRemove(f, name) == [n \in (DOMAIN f) \ {name} |-> f[n]]

EmptyFs == [n \in {} |-> PyNone]

\* tempfile.mkstemp(prefix="kvs", dir=tmp_file_path): a name no file has had
mkstemp(p) == <<p, hist.made[p]>>

\* The local variables of a process at the start of a call.
InitLoc(r) ==
    [pc |-> "call", round |-> r,
     checks |-> 0, lower |-> -1, upper |-> -1,            \* ownCheck
     pos |-> 0, results |-> PyDict(EmptyDict),            \* get
     n |-> 0, pileup_results |-> EmptyDict,               \* process_results
     pileup_list |-> PyNone, temp_name |-> PyNone,
     pref |-> DEFAULT_PREF, value |-> TRUE, warned |-> 0, \* sync_processes
     ret |-> <<>>, err |-> "none"]

InitHist ==
    [yields |-> [p \in Procs |-> <<>>],
     made |-> [p \in Procs |-> 0],
     created |-> {}, removed |-> {}, badrm |-> {},
     reads |-> {},
     staged |-> <<>>, taken |-> <<>>,
     claims |-> <<>>, inits |-> {},
     calls |-> [p \in Procs |-> 0],
     stale |-> {},
     arrived |-> [x \in Prefs |-> {}],
     returned |-> [x \in Prefs |-> {}],
     bufs |-> <<>>]

EmptyKvs == [k \in Keys |-> <<>>]

\* the flattened iteration space of the call: enumerate(itertools.product(...))
Space == Product(iter_product(cfg.args))

\* an exception leaves the process: nothing of this layer catches it
Raise(l, kind) == [l EXCEPT !.pc = "error", !.err = kind]

\* get returns `value` to the caller, who makes the next call at once
GetReturn(l, value) ==
    IF l.round < cfg.nrounds
    THEN [InitLoc(l.round + 1) EXCEPT !.ret = Append(l.ret, value)]
    ELSE [l EXCEPT !.pc = "done", !.ret = Append(l.ret, value)]

\* sync_processes(pref) is entered
SyncCall(l, pref) == [l EXCEPT !.pc = "sy_put", !.pref = pref, !.n = 0]

\* process_results returns `value`: get rebinds results and calls
\* sync_processes(pref=POST_GET_SYNC); a direct caller has its result
ProcessResultsReturn(l, value) ==
    IF cfg.api = "get"
    THEN SyncCall([l EXCEPT !.results = value], POST_GET_SYNC)
    ELSE [l EXCEPT !.pc = "done", !.ret = Append(l.ret, value)]

\* the end of process_results: return, or first wait for everyone
ProcessResultsEnd(l) ==
    IF ~cfg.tmp THEN ProcessResultsReturn(l, l.pileup_list)
    ELSE SyncCall(l, TMP_FILE_SYNC)

\* ---------------------------------------------------- ownCheck, get
\* (a variant whose range ends one position early)
NewUpperShort(lower, chunk) == lower + chunk - 1

\* upper = lower + chunk
NewUpper(lower, chunk) == lower + chunk

\* (a variant that leaves the lower bound out)
OwnsAbove(lower, checks, upper) == lower < checks /\ checks < upper

\* yield lower <= checks < upper
Owns(lower, checks, upper) == lower <= checks /\ checks < upper

\* After the last position: get goes on to process_results; a caller that
\* drives a generator of own_check itself is done.
LoopEnd(l) ==
    IF cfg.api = "get" THEN [l EXCEPT !.pc = "pr_put"] ELSE [l EXCEPT !.pc = "done"]

\* The loop of get from the yield of position l.pos on, with the generator
\* it drives, up to the next KVS operation: the function runs on an owned
\* position; the for loop ends when the product is exhausted; otherwise
\* next(owncheck) resumes the generator (checks += 1), which claims a new
\* range (kvs.get) when checks >= upper and yields again when not.
\* st = [l |-> the locals, y |-> what the generator has yielded so far]
\* (the next pass is taken on the values this pass has computed: s ranges
\* over the one state they make)
RECURSIVE RunLoop(_)
RunLoop(st) ==
    LET l == st.l
        own == Owns(l.lower, l.checks, l.upper)
        res == IF own /\ cfg.api = "get"
               THEN PyDict(DictSet(l.results.v, l.pos,
                                   func(current_args(cfg.args, Space[l.pos + 1]))))
               ELSE l.results
        y == Append(st.y, own)
    IN  IF l.pos + 1 >= Len(Space)
        THEN [l |-> LoopEnd([l EXCEPT !.results = res]), y |-> y]
        ELSE LET l2 == [l EXCEPT !.results = res, !.pos = @ + 1, !.checks = @ + 1]
             IN  IF l2.checks >= l2.upper
                 THEN [l |-> [l2 EXCEPT !.pc = "oc_get"], y |-> y]
                 ELSE CHOOSE r \in {RunLoop(s) : s \in {[l |-> l2, y |-> y]}} : TRUE

\* check.argument_integer(chunk, low=1, allow_none=False): the validator of
\* inferelator_ng.utils accepts an integer that is not below `low`
argument_integer(chunk, low) == chunk >= low

\* dsk[result] when it is no function tuple: a value of the graph
dsk_result == PyVal(-1)

\* The first next(owncheck) runs the generator from its start: rank 0 (the
\* master, as own_check passes it) enqueues 0 on the counter, and every
\* process, with checks = 0 >= upper = -1, goes on to claim a range.
\* h is the history so far.
OwnCheckFirst(p, h) ==
    /\ loc' = [loc EXCEPT ![p].pc = "oc_get"]
    /\ kvs' = IF is_master(p) THEN KvsPut(kvs, GET_COUNT, Entry(0, p)) ELSE kvs
    /\ hist' = IF is_master(p) THEN [h EXCEPT !.inits = @ \cup {p}] ELSE h

\* get, from its entry to its first KVS operation.  The chunk size is
\* asserted to be an integer >= 1.  A result that is no function tuple is
\* returned as it is; a task without arguments or without a sequence argument
\* is run locally.  Otherwise own_check makes the generator, which starts to
\* run at the first next(owncheck), if the product is not empty.
GetStart(p) ==
    /\ loc[p].pc = "call"
    /\ cfg.api = "get"
    /\ LET l == loc[p]
           h == [hist EXCEPT !.yields[p] = <<>>]
           called == [h EXCEPT !.calls[p] = @ + 1]
       IN
        IF ~argument_integer(cfg.chunk, 1)
        THEN /\ loc' = [loc EXCEPT ![p] = Raise(l, "AssertionError")]
             /\ hist' = h
             /\ UNCHANGED kvs
        ELSE IF ~cfg.istuple
        THEN /\ loc' = [loc EXCEPT ![p] = GetReturn(l, dsk_result)]
             /\ hist' = h
             /\ UNCHANGED kvs
        ELSE IF cfg.args = <<>>
        THEN /\ loc' = [loc EXCEPT ![p] = GetReturn(l, PyVal(func(<<>>)))]
             /\ hist' = called
             /\ UNCHANGED kvs
        ELSE IF SumBool(iter_args(cfg.args)) = 0
        THEN /\ loc' = [loc EXCEPT ![p] = GetReturn(l, PyVal(func(literal_args(cfg.args))))]
             /\ hist' = called
             /\ UNCHANGED kvs
        ELSE IF Len(Space) = 0
        THEN /\ loc' = [loc EXCEPT ![p].pc = "pr_put"]
             /\ hist' = h
             /\ UNCHANGED kvs
        ELSE OwnCheckFirst(p, h)
    /\ UNCHANGED <<fs, cfg>>

\* A caller of KVSController.own_check(chunk, GET_COUNT) that steps the
\* generator through the positions itself: own_check checks nothing and runs
\* nothing; the generator starts at the first next().
OwnCheckStart(p) ==
    /\ loc[p].pc = "call"
    /\ cfg.api = "own_check"
    /\ LET h == [hist EXCEPT !.yields[p] = <<>>] IN
        IF Len(Space) = 0
        THEN /\ loc' = [loc EXCEPT ![p] = LoopEnd(@)]
             /\ hist' = h
             /\ UNCHANGED kvs
        ELSE OwnCheckFirst(p, h)
    /\ UNCHANGED <<fs, cfg>>

\* ownCheck: lower = kvs.get(kvs_key); upper = lower + chunk
OwnCheckGet(p) ==
    /\ loc[p].pc = "oc_get"
    /\ KvsReady(GET_COUNT)
    /\ LET e == KvsFront(GET_COUNT) IN
        /\ kvs' = KvsPop(kvs, GET_COUNT)
        /\ loc' = [loc EXCEPT ![p].lower = e.val,
                              ![p].upper = NewUpper(e.val, cfg.chunk),
                              ![p].pc = "oc_put"]
        /\ hist' = [hist EXCEPT
                      !.claims = Append(@, [by |-> p, lower |-> e.val]),
                      !.stale = IF e.rnd < loc[p].round
                                THEN @ \cup {<<p, GET_COUNT>>} ELSE @]
    /\ UNCHANGED <<fs, cfg>>

\* ownCheck: kvs.put(kvs_key, upper), then the yield and the loop of get
OwnCheckPut(p) ==
    /\ loc[p].pc = "oc_put"
    /\ kvs' = KvsPut(kvs, GET_COUNT, Entry(loc[p].upper, p))
    /\ LET st == RunLoop([l |-> loc[p], y |-> hist.yields[p]]) IN
        /\ loc' = [loc EXCEPT ![p] = st.l]
        /\ hist' = [hist EXCEPT
                      !.yields[p] = st.y,
                      !.calls[p] = IF cfg.api = "get"
                                   THEN @ + SumBool(st.y) - SumBool(hist.yields[p])
                                   ELSE @]
    /\ UNCHANGED <<fs, cfg>>

\* ownCheck: kvs.put(kvs_key, upper), then the yield and the loop of get up
\* to a position the process owns, where the task function raises: nothing in
\* get catches the exception, which ends the process.
TaskRaises(p) ==
    /\ loc[p].pc = "oc_put"
    /\ cfg.api = "get"
    /\ SumBool(RunLoop([l |-> loc[p], y |-> hist.yields[p]]).y) > SumBool(hist.yields[p])
    /\ kvs' = KvsPut(kvs, GET_COUNT, Entry(loc[p].upper, p))
    /\ loc' = [loc EXCEPT ![p] = Raise(@, "TaskError")]
    /\ UNCHANGED <<fs, cfg, hist>>

\* -------------------------------------------------- process_results
\* process_results, first part: stage the local results on PILEUP_DATA, as
\* they are or pickled to a temp file whose name is staged.
StageResults(p) ==
    /\ loc[p].pc = "pr_put"
    /\ LET next == IF is_master(p) THEN "pr_collect" ELSE "pr_view" IN
        IF ~cfg.tmp
        THEN /\ kvs' = KvsPut(kvs, PILEUP_DATA, Entry(loc[p].results, p))
             /\ loc' = [loc EXCEPT ![p].pc = next, ![p].n = 0,
                                   ![p].pileup_results = EmptyDict]
             /\ hist' = [hist EXCEPT !.staged = Append(@, p)]
             /\ UNCHANGED fs
        ELSE LET temp_name == mkstemp(p) IN
             /\ fs' = FsWrite(fs, temp_name, loc[p].results)
             /\ kvs' = KvsPut(kvs, PILEUP_DATA, Entry(PyPath(temp_name), p))
             /\ loc' = [loc EXCEPT ![p].pc = next, ![p].n = 0,
                                   ![p].pileup_results = EmptyDict,
                                   ![p].temp_name = PyPath(temp_name)]
             /\ hist' = [hist EXCEPT !.made[p] = @ + 1,
                                     !.created = @ \cup {temp_name},
                                     !.staged = Append(@, p)]
    /\ UNCHANGED cfg

\* (a variant that ends the loop one pass early)
LoopDoneEarly(n) == n >= tasks - 1

\* for _ in range(cls.tasks): the loop has run n times
LoopDone(n) == n >= tasks

\* The master, one pass of its loop: dequeue one staged buffer and update
\* pileup_results with it; a staged file is read and then removed.
MasterCollect(p) ==
    /\ loc[p].pc = "pr_collect"
    /\ is_master(p)
    /\ KvsReady(PILEUP_DATA)
    /\ LET e == KvsFront(PILEUP_DATA)
           next == IF LoopDone(loc[p].n + 1) THEN "pr_publish" ELSE "pr_collect"
       IN
        /\ kvs' = KvsPop(kvs, PILEUP_DATA)
        /\ IF ~cfg.tmp
           THEN /\ loc' = [loc EXCEPT
                        ![p].pileup_results = DictUpdate(@, e.val.v),
                        ![p].n = @ + 1, ![p].pc = next]
                /\ hist' = [hist EXCEPT !.bufs = Append(@, e.val.v),
                                        !.taken = Append(@, e.by)]
                /\ UNCHANGED fs
           ELSE IF e.val.v \notin DOMAIN fs
           THEN /\ loc' = [loc EXCEPT ![p] = Raise(@, "IOError")]
                /\ hist' = [hist EXCEPT !.taken = Append(@, e.by)]
                /\ UNCHANGED fs
           ELSE /\ loc' = [loc EXCEPT
                        ![p].pileup_results = DictUpdate(@, fs[e.val.v].v),
                        ![p].temp_name = e.val,
                        ![p].n = @ + 1, ![p].pc = next]
                /\ fs' = FsRemove(fs, e.val.v)
                /\ hist' = [hist EXCEPT !.bufs = Append(@, fs[e.val.v].v),
                                        !.reads = @ \cup {<<p, e.val.v>>},
                                        !.taken = Append(@, e.by),
                                        !.removed = @ \cup {e.val.v}]
    /\ UNCHANGED cfg

\* pileup_list = [None] * len(pileup_results), then pileup_list[idx] = val for
\* every item: an index that is not below the length is an IndexError
MergeFails(pileup_results) ==
    \E idx \in DOMAIN pileup_results : idx >= Cardinality(DOMAIN pileup_results)

\* (a variant that fills the list from its end)
MergeListReversed(pileup_results) ==
    [i \in 1 .. Cardinality(DOMAIN pileup_results) |->
        pileup_results[Cardinality(DOMAIN pileup_results) - i]]

MergeList(pileup_results) ==
    [i \in 1 .. Cardinality(DOMAIN pileup_results) |-> pileup_results[i - 1]]

\* (a variant that never publishes the list)
FinalValueNone(tell_children, tmp, pileup_list, temp_name) == PyNone

\* (a variant that publishes the list whatever tell_children says)
FinalValueAlways(tell_children, tmp, pileup_list, temp_name) ==
    IF ~tmp THEN pileup_list ELSE PyPath(temp_name)

\* what the master enqueues on FINAL_DATA: the list, the name of the file
\* holding it, or None
FinalValue(tell_children, tmp, pileup_list, temp_name) ==
    IF tell_children /\ ~tmp THEN pileup_list
    ELSE IF tell_children THEN PyPath(temp_name)
    ELSE PyNone

\* The master, after its loop: build the list and publish it on FINAL_DATA.
MasterPublish(p) ==
    /\ loc[p].pc = "pr_publish"
    /\ is_master(p)
    /\ IF MergeFails(loc[p].pileup_results)
       THEN /\ loc' = [loc EXCEPT ![p] = Raise(@, "IndexError")]
            /\ UNCHANGED <<kvs, fs, hist>>
       ELSE LET pileup_list == PyList(MergeList(loc[p].pileup_results))
                temp_name == mkstemp(p)
                spill == cfg.tell /\ cfg.tmp
            IN
            /\ kvs' = KvsPut(kvs, FINAL_DATA,
                             Entry(FinalValue(cfg.tell, cfg.tmp, pileup_list, temp_name), p))
            /\ fs' = IF spill THEN FsWrite(fs, temp_name, pileup_list) ELSE fs
            /\ hist' = IF spill
                       THEN [hist EXCEPT !.made[p] = @ + 1,
                                         !.created = @ \cup {temp_name}]
                       ELSE hist
            /\ loc' = [loc EXCEPT ![p] =
                         ProcessResultsEnd([@ EXCEPT !.pileup_list = pileup_list,
                                                     !.temp_name = IF spill THEN PyPath(temp_name) ELSE @])]
    /\ UNCHANGED cfg

\* A process that is not the master: view FINAL_DATA.  The value viewed is
\* the result, unless it is the name of the file to read the result from.
WorkerView(p) ==
    /\ loc[p].pc = "pr_view"
    /\ ~is_master(p)
    /\ KvsReady(FINAL_DATA)
    /\ LET e == KvsFront(FINAL_DATA) IN
        /\ loc' = [loc EXCEPT ![p] =
                     IF cfg.tell /\ cfg.tmp
                     THEN [@ EXCEPT !.temp_name = e.val, !.pc = "pr_read"]
                     ELSE ProcessResultsEnd([@ EXCEPT !.pileup_list = e.val])]
        /\ hist' = IF e.rnd < loc[p].round
                   THEN [hist EXCEPT !.stale = @ \cup {<<p, FINAL_DATA>>}]
                   ELSE hist
    /\ UNCHANGED <<kvs, fs, cfg>>

\* with open(cls.view_key(FINAL_DATA), "r") as temp: pileup_list = pickle.load(temp)
\* (the load gives back the object that was dumped, as it does where a file
\* opened "r" is read as bytes; the same holds for the master's reads)
WorkerRead(p) ==
    /\ loc[p].pc = "pr_read"
    /\ LET name == loc[p].temp_name IN
        IF name.ty # "path"
        THEN /\ loc' = [loc EXCEPT ![p] = Raise(@, "TypeError")]
             /\ UNCHANGED hist
        ELSE IF name.v \notin DOMAIN fs
        THEN /\ loc' = [loc EXCEPT ![p] = Raise(@, "IOError")]
             /\ UNCHANGED hist
        ELSE /\ loc' = [loc EXCEPT ![p] =
                          ProcessResultsEnd([@ EXCEPT !.pileup_list = fs[name.v]])]
             /\ hist' = [hist EXCEPT !.reads = @ \cup {<<p, name.v>>}]
    /\ UNCHANGED <<kvs, fs, cfg>>

\* After the TMP_FILE_SYNC barrier the master runs
\* os.remove(cls.view_key(FINAL_DATA)), whatever FINAL_DATA holds.
MasterRemoveFile(p) ==
    /\ loc[p].pc = "pr_rm"
    /\ is_master(p)
    /\ KvsReady(FINAL_DATA)
    /\ LET name == KvsFront(FINAL_DATA).val IN
        IF name.ty # "path"
        THEN /\ loc' = [loc EXCEPT ![p] = Raise(@, "TypeError")]
             /\ hist' = [hist EXCEPT !.badrm = @ \cup {name}]
             /\ UNCHANGED fs
        ELSE IF name.v \notin DOMAIN fs
        THEN /\ loc' = [loc EXCEPT ![p] = Raise(@, "OSError")]
             /\ hist' = [hist EXCEPT !.badrm = @ \cup {name}]
             /\ UNCHANGED fs
        ELSE /\ fs' = FsRemove(fs, name.v)
             /\ hist' = [hist EXCEPT !.removed = @ \cup {name.v}]
             /\ loc' = [loc EXCEPT ![p] = ProcessResultsReturn(@, @.pileup_list)]
    /\ UNCHANGED <<kvs, cfg>>

\* --------------------------------------------------- sync_processes
\* cls.put_key(wkey, value): every process puts a wait key up
SyncArrive(p) ==
    /\ loc[p].pc = "sy_put"
    /\ kvs' = KvsPut(kvs, wkey(loc[p].pref), Entry(loc[p].value, p))
    /\ loc' = [loc EXCEPT ![p].pc = IF is_master(p) THEN "sy_collect" ELSE "sy_wait",
                          ![p].n = 0]
    /\ hist' = [hist EXCEPT !.arrived[loc[p].pref] = @ \cup {p}]
    /\ UNCHANGED <<fs, cfg>>

\* (a variant that warns when the values agree)
MismatchInverted(c_value, value) == c_value = value

\* if c_value != value: warnings.warn(...)
Mismatch(c_value, value) == c_value # value

\* The master, one pass of its first loop: c_value = cls.get_key(wkey), with
\* a warning when it differs from the master's value.
MasterSyncCollect(p) ==
    /\ loc[p].pc = "sy_collect"
    /\ is_master(p)
    /\ KvsReady(wkey(loc[p].pref))
    /\ LET c_value == KvsFront(wkey(loc[p].pref)).val IN
        loc' = [loc EXCEPT
                  ![p].warned = IF Mismatch(c_value, loc[p].value) THEN @ + 1 ELSE @,
                  ![p].n = IF LoopDone(@ + 1) THEN 0 ELSE @ + 1,
                  ![p].pc = IF LoopDone(loc[p].n + 1) THEN "sy_release" ELSE "sy_collect"]
    /\ kvs' = KvsPop(kvs, wkey(loc[p].pref))
    /\ UNCHANGED <<fs, cfg, hist>>

\* The master, one pass of its second loop: cls.put_key(ckey, True)
MasterSyncRelease(p) ==
    /\ loc[p].pc = "sy_release"
    /\ is_master(p)
    /\ kvs' = KvsPut(kvs, ckey(loc[p].pref), Entry(TRUE, p))
    /\ loc' = [loc EXCEPT
                  ![p].n = IF LoopDone(@ + 1) THEN 0 ELSE @ + 1,
                  ![p].pc = IF LoopDone(loc[p].n + 1) THEN "sy_wait" ELSE "sy_release"]
    /\ UNCHANGED <<fs, cfg, hist>>

\* sync_processes returns to the place it was called from
SyncReturn(l, p) ==
    IF cfg.api = "sync_processes"
    THEN [l EXCEPT !.pc = "done", !.ret = Append(@, PyNone)]
    ELSE IF l.pref = TMP_FILE_SYNC
    THEN IF is_master(p) THEN [l EXCEPT !.pc = "pr_rm"]
         ELSE ProcessResultsReturn(l, l.pileup_list)
    ELSE IF is_master(p) THEN [l EXCEPT !.pc = "g_rmcount"]
    ELSE GetReturn(l, l.results)

\* cls.get_key(ckey): every process waits until a go key is available
SyncWait(p) ==
    /\ loc[p].pc = "sy_wait"
    /\ KvsReady(ckey(loc[p].pref))
    /\ kvs' = KvsPop(kvs, ckey(loc[p].pref))
    /\ loc' = [loc EXCEPT ![p] = SyncReturn(@, p)]
    /\ hist' = [hist EXCEPT !.returned[loc[p].pref] = @ \cup {p}]
    /\ UNCHANGED <<fs, cfg>>

\* ------------------------------------------------ master_remove_key
\* cls.master_remove_key(kvs_key=GET_COUNT): the master dequeues a value
MasterRemoveCount(p) ==
    /\ loc[p].pc = "g_rmcount"
    /\ is_master(p)
    /\ KvsReady(GET_COUNT)
    /\ kvs' = KvsPop(kvs, GET_COUNT)
    /\ loc' = [loc EXCEPT ![p].pc = "g_rmfinal"]
    /\ UNCHANGED <<fs, cfg, hist>>

\* cls.master_remove_key(kvs_key=FINAL_DATA), then return results
MasterRemoveFinal(p) ==
    /\ loc[p].pc = "g_rmfinal"
    /\ is_master(p)
    /\ KvsReady(FINAL_DATA)
    /\ kvs' = KvsPop(kvs, FINAL_DATA)
    /\ loc' = [loc EXCEPT ![p] = GetReturn(@, @.results)]
    /\ UNCHANGED <<fs, cfg, hist>>

\* --------------------------------------------------- specifications
Chunks == 1 .. MaxChunk

\* What every process passes to get: dsk[result] is a function tuple with
\* the arguments args, or (istuple = FALSE) a value of the graph.
CallConfigs(api, rounds) ==
    [api : {api}, args : TaskArgs, chunk : Chunks,
     tmp : BOOLEAN, tell : BOOLEAN, nrounds : {rounds}, istuple : {TRUE}]
      \cup [api : {api}, args : {<<>>}, chunk : Chunks,
            tmp : BOOLEAN, tell : BOOLEAN, nrounds : {rounds}, istuple : {FALSE}]

\* NProc processes, one of them the master, each calling KVSController.get
\* once with the same arguments, on an empty KVS.
Init ==
    /\ kvs = EmptyKvs
    /\ fs = EmptyFs
    /\ cfg \in CallConfigs("get", 1)
    /\ loc = [p \in Procs |-> InitLoc(1)]
    /\ hist = InitHist

GetStep(p) ==
    \/ GetStart(p)
    \/ OwnCheckGet(p)
    \/ OwnCheckPut(p)
    \/ MasterRemoveCount(p)
    \/ MasterRemoveFinal(p)

ProcessResultsStep(p) ==
    \/ StageResults(p)
    \/ MasterCollect(p)
    \/ MasterPublish(p)
    \/ WorkerView(p)
    \/ WorkerRead(p)
    \/ MasterRemoveFile(p)

SyncStep(p) ==
    \/ SyncArrive(p)
    \/ MasterSyncCollect(p)
    \/ MasterSyncRelease(p)
    \/ SyncWait(p)

Next == \E p \in Procs : GetStep(p) \/ ProcessResultsStep(p) \/ SyncStep(p)

Spec == Init /\ [][Next]_vars

\* The same processes calling get twice in succession, each entering its
\* second call as soon as its first has returned.
InitTwo ==
    /\ kvs = EmptyKvs
    /\ fs = EmptyFs
    /\ cfg \in CallConfigs("get", 2)
    /\ loc = [p \in Procs |-> InitLoc(1)]
    /\ hist = InitHist

SpecTwo == InitTwo /\ [][Next]_vars

\* Every process calling get once with tmp_file_path = None on a task over
\* one list, and the steps such a round is made of.
InitDirect ==
    /\ kvs = EmptyKvs
    /\ fs = EmptyFs
    /\ cfg \in {c \in CallConfigs("get", 1) :
                  /\ ~c.tmp /\ c.istuple
                  /\ Len(c.args) = 1 /\ c.args[1].iter}
    /\ loc = [p \in Procs |-> InitLoc(1)]
    /\ hist = InitHist

DirectStep(p) ==
    \/ GetStep(p)
    \/ StageResults(p)
    \/ MasterCollect(p)
    \/ MasterPublish(p)
    \/ WorkerView(p)
    \/ SyncStep(p)

NextDirect == \E p \in Procs : DirectStep(p)

SpecDirect == InitDirect /\ [][NextDirect]_vars

\* The same with every process scheduled: each process is an operating system
\* process of its own, so one that can take its next step (a local step, a
\* put, or a get or view whose key holds a value) takes it.
FairSpecDirect == SpecDirect /\ \A p \in Procs : WF_vars(DirectStep(p))

\* Every process calling get once on a task over one list, with a task
\* function that can raise at any call.
InitCrash ==
    /\ kvs = EmptyKvs
    /\ fs = EmptyFs
    /\ cfg \in [api : {"get"}, args : {<<ListArg(a)>> : a \in 1 .. MaxLen},
                chunk : Chunks, tmp : BOOLEAN, tell : BOOLEAN, nrounds : {1},
                istuple : {TRUE}]
    /\ loc = [p \in Procs |-> InitLoc(1)]
    /\ hist = InitHist

NextCrash ==
    \E p \in Procs :
        GetStep(p) \/ TaskRaises(p) \/ ProcessResultsStep(p) \/ SyncStep(p)

SpecCrash == InitCrash /\ [][NextCrash]_vars

\* The position -> result dicts a caller can hand to process_results for an
\* iteration space of n positions: any set of positions, each with the result
\* of the task there.
Buffers(args) ==
    LET space == Product(iter_product(args)) IN
    {[k \in S |-> func(current_args(args, space[k + 1]))] :
        S \in SUBSET (0 .. (Len(space) - 1))}

\* Every process calling KVSController.process_results once, on an empty KVS,
\* each with a results dict of its own.
InitPR ==
    /\ kvs = EmptyKvs
    /\ fs = EmptyFs
    /\ cfg \in [api : {"process_results"}, args : {<<ListArg(a)>> : a \in 1 .. MaxLen},
                chunk : {1}, tmp : BOOLEAN, tell : BOOLEAN, nrounds : {1},
                istuple : {TRUE}]
    /\ \E bufs \in [Procs -> Buffers(cfg.args)] :
          loc = [p \in Procs |->
                    [InitLoc(1) EXCEPT !.pc = "pr_put", !.results = PyDict(bufs[p])]]
    /\ hist = InitHist

NextPR == \E p \in Procs : ProcessResultsStep(p) \/ SyncStep(p)

SpecPR == InitPR /\ [][NextPR]_vars

\* The values a caller passes to sync_processes as its witness.
Witnesses == BOOLEAN

\* Every process calling KVSController.sync_processes once with the same
\* prefix, on an empty KVS, each with a witness value of its own.
InitSync ==
    /\ kvs = EmptyKvs
    /\ fs = EmptyFs
    /\ cfg \in [api : {"sync_processes"}, args : {<<>>},
                chunk : {1}, tmp : {FALSE}, tell : {TRUE}, nrounds : {1},
                istuple : {TRUE}]
    /\ \E w \in [Procs -> Witnesses], x \in Prefs :
          loc = [p \in Procs |->
                    [InitLoc(1) EXCEPT !.pc = "sy_put", !.pref = x, !.value = w[p]]]
    /\ hist = InitHist

NextSync == \E p \in Procs : SyncStep(p)

SpecSync == InitSync /\ [][NextSync]_vars

\* The same, with every process scheduled: a process that can take its next
\* step of sync_processes (a put, or a get whose key holds a value) takes it.
FairSpecSync == SpecSync /\ \A p \in Procs : WF_vars(SyncStep(p))

\* Chunk sizes a caller can pass that are not >= 1.
BadChunks == {-1, 0}

\* Every process either making a generator with KVSController.own_check and
\* stepping it through the positions of a list itself, with any chunk size,
\* or calling KVSController.get with a chunk size that is not >= 1.
InitOwn ==
    /\ kvs = EmptyKvs
    /\ fs = EmptyFs
    /\ cfg \in [api : {"own_check"}, args : {<<ListArg(a)>> : a \in 1 .. MaxLen},
                chunk : BadChunks \cup Chunks, tmp : {FALSE}, tell : {TRUE},
                nrounds : {1}, istuple : {TRUE}]
                 \cup [api : {"get"}, args : TaskArgs, chunk : BadChunks,
                       tmp : BOOLEAN, tell : BOOLEAN, nrounds : {1}, istuple : {TRUE}]
    /\ loc = [p \in Procs |-> InitLoc(1)]
    /\ hist = InitHist

NextOwn ==
    \E p \in Procs :
        GetStart(p) \/ OwnCheckStart(p) \/ OwnCheckGet(p) \/ OwnCheckPut(p)

SpecOwn == InitOwn /\ [][NextOwn]_vars

\* Every process calling KVSController.get once with chunk size 3 on a task
\* over a list of 8 elements, so that its generator steps through 8 positions.
InitScenario ==
    /\ kvs = EmptyKvs
    /\ fs = EmptyFs
    /\ cfg \in [api : {"get"}, args : {<<ListArg(8)>>}, chunk : {3},
                tmp : BOOLEAN, tell : BOOLEAN, nrounds : {1}, istuple : {TRUE}]
    /\ loc = [p \in Procs |-> InitLoc(1)]
    /\ hist = InitHist

SpecScenario == InitScenario /\ [][Next]_vars

\* ----------------------------------------------------------- _get_env
\* SBATCH_VARS: environment variable, class variable and default; the parse
\* function of every one of them is int
SBATCH_VARS ==
    <<[env_var |-> "SLURM_PROCID", class_var |-> "rank", default |-> 0],
      [env_var |-> "SLURM_NTASKS_PER_NODE", class_var |-> "cores", default |-> 1],
      [env_var |-> "SLURM_NTASKS", class_var |-> "tasks", default |-> 1],
      [env_var |-> "SLURM_NODEID", class_var |-> "node", default |-> 0],
      [env_var |-> "SLURM_JOB_NUM_NODES", class_var |-> "num_nodes", default |-> 1]>>

EnvVars == {SBATCH_VARS[i].env_var : i \in DOMAIN SBATCH_VARS}

\* the characters int reads as decimal digits, by value
Digits == <<"0", "1", "2", "3", "4", "5", "6", "7", "8", "9">>

IsDigit(c) == \E d \in DOMAIN Digits : Digits[d] = c

DigitValue(c) == (CHOOSE d \in DOMAIN Digits : Digits[d] = c) - 1

RECURSIVE IntAcc(_, _)
IntAcc(text, acc) ==
    IF text = <<>> THEN acc
    ELSE IntAcc(Tail(text), acc * 10 + DigitValue(Head(text)))

\* int(text) of a string of characters: its value when the string is a
\* decimal numeral, a ValueError (ok = FALSE) when it is not
PyInt(text) ==
    IF text # <<>> /\ \A i \in DOMAIN text : IsDigit(text[i])
    THEN [ok |-> TRUE, v |-> IntAcc(text, 0)]
    ELSE [ok |-> FALSE, v |-> 0]

\* os.environ[env_var]: not set (a KeyError), or a string
Unset == [set |-> FALSE, text |-> <<>>]
EnvTexts == {<<"0">>, <<"1">>, <<"1", "0">>, <<"x">>}
EnvValues == {Unset} \cup {[set |-> TRUE, text |-> t] : t \in EnvTexts}

\* the class variables before connect
InitCls ==
    [rank |-> PyNone, tasks |-> PyNone, node |-> PyNone, cores |-> PyNone,
     num_nodes |-> PyNone, is_master |-> FALSE]

\* The for loop of _get_env over the variables todo.  KeyError (and
\* TypeError) are caught and give the default, with a warning printed unless
\* suppress_warnings; any other exception of func leaves _get_env.
\* st = [cls |-> the class variables, warned |-> the variables warned about,
\*       err |-> the exception that left the loop]
RECURSIVE GetEnvLoop(_, _)
GetEnvLoop(todo, st) ==
    IF todo = <<>> THEN st
    ELSE LET var == Head(todo)
             x == cfg.env[var.env_var]
         IN  IF ~x.set
             THEN GetEnvLoop(Tail(todo),
                      [st EXCEPT !.cls[var.class_var] = PyVal(var.default),
                                 !.warned = IF cfg.suppress_warnings THEN @
                                            ELSE @ \cup {var.env_var}])
             ELSE IF ~PyInt(x.text).ok
             THEN [st EXCEPT !.err = "ValueError"]
             ELSE GetEnvLoop(Tail(todo),
                      [st EXCEPT !.cls[var.class_var] = PyVal(PyInt(x.text).v)])

\* KVSController._get_env(suppress_warnings, master_rank), as one step
GetEnv(p) ==
    /\ loc[p].pc = "call"
    /\ cfg.api = "_get_env"
    /\ LET st == GetEnvLoop(SBATCH_VARS,
                            [cls |-> loc[p].cls, warned |-> {}, err |-> "none"])
       IN  loc' = [loc EXCEPT ![p] =
                     IF st.err # "none"
                     THEN [@ EXCEPT !.pc = "error", !.err = st.err,
                                    !.cls = st.cls, !.warned = st.warned]
                     ELSE [@ EXCEPT !.pc = "done", !.warned = st.warned,
                                    !.cls = [st.cls EXCEPT !.is_master =
                                                st.cls.rank = PyVal(cfg.master_rank)]]]
    /\ UNCHANGED <<kvs, fs, cfg, hist>>

\* Every process calling KVSController._get_env once, in one environment.
InitEnv ==
    /\ kvs = EmptyKvs
    /\ fs = EmptyFs
    /\ cfg \in [api : {"_get_env"}, env : [EnvVars -> EnvValues],
                suppress_warnings : BOOLEAN, master_rank : Procs]
    /\ loc = [p \in Procs |-> [pc |-> "call", err |-> "none",
                                cls |-> InitCls, warned |-> {}]]
    /\ hist = InitHist

NextEnv == \E p \in Procs : GetEnv(p)

SpecEnv == InitEnv /\ [][NextEnv]_vars

\* --------------------------------------------------------- gcv_dask
\* (preprocessing/tfa_tsvd.py)  The largest value of `biggest` considered.
MaxBiggest == 4

\* What calculate_gcval can return.
GcValues == {0, 1}

\* calculate_gcval(P, X, k, m): a number that depends on the data and on k;
\* which number is fixed by the data of the call, cfg.gcval.
calculate_gcval(k) == cfg.gcval[k]

\* def gcv_maker(P, X, k, m): return k, calculate_gcval(P, X, k, m)
gcv_maker(k) == <<k, calculate_gcval(k)>>

\* (a variant that fills the list in the order the futures finish)
StoreNext(result_list, j, result_data) ==
    LET free == {i \in DOMAIN result_list : result_list[i] = PyNone}
        first == CHOOSE i \in free : \A i2 \in free : i <= i2
    IN  [result_list EXCEPT ![first] = PyVal(result_data)]

\* result_list[j - 1] = result_data (Python indexes from 0, the sequence
\* here from 1)
StoreAt(result_list, j, result_data) ==
    [result_list EXCEPT ![(j - 1) + 1] = PyVal(result_data)]

\* The client scatters P and X to the workers.
GcvScatter ==
    /\ loc.pc = "scatter"
    /\ loc' = [loc EXCEPT !.pc = "submit", !.scattered = {"P", "X"}]
    /\ UNCHANGED <<kvs, fs, cfg, hist>>

\* One pass of the list comprehension: submit(gcv_maker, scatter_p, scatter_x,
\* i, m) for the next i of range(1, biggest); after the last,
\* result_list = [None] * len(future_list) and as_completed is entered.
GcvSubmit ==
    /\ loc.pc = "submit"
    /\ loc' = IF loc.i < cfg.biggest
              THEN [loc EXCEPT !.future_list =
                                  Append(@, [k |-> loc.i, state |-> "pending",
                                             result |-> <<>>]),
                               !.i = @ + 1]
              ELSE [loc EXCEPT !.pc = "collect",
                               !.result_list =
                                  [n \in 1 .. Len(loc.future_list) |-> PyNone]]
    /\ UNCHANGED <<kvs, fs, cfg, hist>>

\* A worker finishes a submitted future, whichever: its result is what
\* gcv_maker returns for the k it was submitted with.
GcvFinish(f) ==
    /\ f \in DOMAIN loc.future_list
    /\ loc.future_list[f].state = "pending"
    /\ loc' = [loc EXCEPT !.future_list[f].state = "finished",
                          !.future_list[f].result = gcv_maker(loc.future_list[f].k)]
    /\ UNCHANGED <<kvs, fs, cfg, hist>>

\* One pass of the loop over as_completed(future_list, with_results=True):
\* it hands over a finished future that it has not handed over before, with
\* its result (j, result_data), and blocks while there is none; the body
\* stores the result and cancels the future.  After every future was handed
\* over the loop ends.
GcvCollect(f) ==
    /\ loc.pc = "collect"
    /\ f \in DOMAIN loc.future_list
    /\ loc.future_list[f].state = "finished"
    /\ LET j == loc.future_list[f].result[1]
           result_data == loc.future_list[f].result[2]
           left == {g \in DOMAIN loc.future_list \ {f} :
                       loc.future_list[g].state # "cancelled"}
       IN  loc' = [loc EXCEPT !.result_list = StoreAt(@, j, result_data),
                              !.future_list[f].state = "cancelled",
                              !.pc = IF left = {} THEN "cancel" ELSE "collect"]
    /\ UNCHANGED <<kvs, fs, cfg, hist>>

\* as_completed of an empty list hands over nothing
GcvCollectNone ==
    /\ loc.pc = "collect"
    /\ loc.future_list = <<>>
    /\ loc' = [loc EXCEPT !.pc = "cancel"]
    /\ UNCHANGED <<kvs, fs, cfg, hist>>

\* client.cancel(scatter_x); client.cancel(scatter_p);
\* client.cancel(future_list); return result_list
GcvReturn ==
    /\ loc.pc = "cancel"
    /\ loc' = [loc EXCEPT !.pc = "done", !.scattered = {},
                          !.ret = <<PyList(loc.result_list)>>]
    /\ UNCHANGED <<kvs, fs, cfg, hist>>

\* One call of gcv_dask(P, X, biggest, m), with workers that finish the
\* futures in any order.
InitGcv ==
    /\ kvs = EmptyKvs
    /\ fs = EmptyFs
    /\ cfg \in [api : {"gcv_dask"}, biggest : 1 .. MaxBiggest,
                gcval : [1 .. (MaxBiggest - 1) -> GcValues]]
    /\ loc = [pc |-> "scatter", i |-> 1, scattered |-> {}, future_list |-> <<>>,
              result_list |-> <<>>, ret |-> <<>>]
    /\ hist = InitHist

NextGcv ==
    \/ GcvScatter
    \/ GcvSubmit
    \/ \E f \in 1 .. (MaxBiggest - 1) : GcvFinish(f) \/ GcvCollect(f)
    \/ GcvCollectNone
    \/ GcvReturn

SpecGcv == InitGcv /\ [][NextGcv]_vars

\* ------------------------------------------------- claims: helpers
Master == DEFAULT_MASTER

\* the task has a sequence argument: get distributes it
Iterable == \E j \in 1 .. Len(cfg.args) : cfg.args[j].iter

\* arguments j+1.. of the task: the number of combinations of their sequences
RECURSIVE Stride(_)
Stride(j) ==
    IF j >= Len(cfg.args) THEN 1
    ELSE (IF cfg.args[j + 1].iter THEN Len(cfg.args[j + 1].seq) ELSE 1) * Stride(j + 1)

\* the number of positions of the flattened iteration space
Size == Stride(0)

\* argument j of the combination at flattened index i, rightmost fastest
ArgAt(i, j) ==
    IF cfg.args[j].iter
    THEN cfg.args[j].seq[((i \div Stride(j)) % Len(cfg.args[j].seq)) + 1]
    ELSE cfg.args[j].seq[1]

\* the result of the task function on the combination at flattened index i
ResultAt(i) == func([j \in 1 .. Len(cfg.args) |-> ArgAt(i, j)])

\* the merged list of a round
MergedList == PyList([i \in 1 .. Size |-> ResultAt(i - 1)])

Done(p) == loc[p].pc = "done"
AllDone == \A p \in Procs : Done(p)

\* the processes ownCheck has yielded True to at position i
Owners(i) == {p \in Procs : i < Len(hist.yields[p]) /\ hist.yields[p][i + 1]}

\* p has stepped through every position
Stepped(p) == Len(hist.yields[p]) = Size

\* the master has built its merged list
Merged == loc[Master].pc \in {"sy_put", "sy_collect", "sy_release", "sy_wait",
                              "pr_rm", "g_rmcount", "g_rmfinal", "done"}

\* ------------------------------------------------------------- C1
\* C1 (partition): in one round on an empty KVS, at no time has ownCheck
\* yielded True for one position to two processes, and once every process has
\* stepped through positions 0..M-1, every position has been yielded True to
\* exactly one process (and so False to all the others).
Partition ==
    Iterable =>
        /\ \A i \in 0 .. (Size - 1) : Cardinality(Owners(i)) <= 1
        /\ (\A p \in Procs : Stepped(p)) =>
              \A i \in 0 .. (Size - 1) : Cardinality(Owners(i)) = 1

\* every process has stepped through a space of several positions, and every
\* process owns some of them
PartitionWitness ==
    /\ Iterable /\ Size >= NProc
    /\ \A p \in Procs : Stepped(p) /\ \E i \in 0 .. (Size - 1) : p \in Owners(i)

\* ------------------------------------------------------------- C2
\* C2 (barrier safety): in one sync_processes round on a fresh prefix no
\* process has returned from sync_processes unless every process has enqueued
\* its witness value on the wait key of the prefix.
BarrierSafety ==
    \A x \in Prefs : hist.returned[x] # {} => hist.arrived[x] = Procs

\* every process, the master included, has returned from the barrier
BarrierSafetyWitness ==
    /\ AllDone
    /\ \E x \in Prefs : hist.returned[x] = Procs

\* ------------------------------------------------------------- C3
\* C3 (reduce completeness): in one get round over M >= 1 positions the merge
\* of the master does not fail, and the list it builds has length M with, at
\* index i, the result of the task function on the argument combination at
\* flattened index i (rightmost sequence argument fastest).
ReduceComplete ==
    (Iterable /\ Size >= 1) =>
        /\ loc[Master].err # "IndexError"
        /\ Merged => loc[Master].pileup_list = MergedList

\* the master has merged a two-dimensional space every process computed part of
ReduceCompleteWitness ==
    /\ Iterable /\ Size >= 4 /\ Merged
    /\ \A p \in Procs : \E i \in 0 .. (Size - 1) : p \in Owners(i)

\* ------------------------------------------------------------- C4
\* C4 (broadcast equivalence): in one get round with tell_children = True, a
\* process that is not the master returns the list the master has merged, and
\* the master, when it returns, returns that list too.
BroadcastEquivalent ==
    (Iterable /\ cfg.tell) =>
        \A p \in Procs \ {Master} :
            Done(p) =>
                /\ Merged
                /\ loc[p].ret = <<loc[Master].pileup_list>>
                /\ Done(Master) => loc[Master].ret = loc[p].ret

\* everyone has returned from a broadcasting round over several positions
BroadcastEquivalentWitness ==
    /\ Iterable /\ cfg.tell /\ Size >= 2 /\ NProc >= 2
    /\ AllDone

DirectReturn(p) == IF p = Master \/ cfg.tell THEN MergedList ELSE PyNone

\* C6 (spill equivalence): a get round over M >= 1 positions with
\* tmp_file_path set comes to rest only with every process returned, each with
\* the value the round with tmp_file_path = None gives it.
SpillEquivalent ==
    (Iterable /\ Size >= 1 /\ cfg.tmp /\ ~ENABLED Next) =>
        \A p \in Procs : Done(p) /\ loc[p].ret = <<DirectReturn(p)>>

\* ------------------------------------------------------------- C7
\* C7 (clean slate): in two get rounds back to back no process dequeues a
\* counter value or views a final value that was enqueued in an earlier round
\* than the one the process is in (rounds over M >= 1 positions).
CleanSlate == (Iterable /\ Size >= 1) => hist.stale = {}

\* ------------------------------------------------------------- C8
\* C8 (empty iteration space): a get round whose iteration space has no
\* position comes to rest only with every process returned, the master with
\* the empty list.
EmptySpaceReturns ==
    (Iterable /\ Size = 0 /\ ~cfg.tmp /\ ~ENABLED Next) =>
        /\ AllDone
        /\ loc[Master].ret = <<PyList(<<>>)>>

\* ------------------------------------------------------------- C9
\* the buffers the master has collected that hold position i
Holders(i) == {b \in 1 .. Len(hist.bufs) : i \in DOMAIN hist.bufs[b]}

\* C9 (partition violation is fatal): when the master of process_results has
\* built a merged list, every position of the iteration space was in exactly
\* one of the buffers it collected.
PartitionViolationFatal ==
    (loc[Master].pc \in {"sy_put", "sy_collect", "sy_release", "sy_wait", "pr_rm", "done"}) =>
        \A i \in 0 .. (Size - 1) : Cardinality(Holders(i)) = 1

\* ------------------------------------------------------------ C10
\* C10 (no spill file survives): in a get round over M >= 1 positions with tmp_file_path set no
\* removal is attempted of something that is not an existing spill file, and
\* once every process has returned, every spill file created in the round has
\* been removed and none exists.
NoSpillFileSurvives ==
    (Iterable /\ Size >= 1 /\ cfg.tmp) =>
        /\ hist.badrm = {}
        /\ AllDone => (DOMAIN fs = {} /\ hist.removed = hist.created)

\* ------------------------------------------------------------ C11
\* the spill file that holds the merged list, once the master has written it
FinalFile == loc[Master].temp_name.v

\* C11 (spill-file deletion ordering): in a get round with tmp_file_path set
\* and tell_children = True, the spill file of the final data has been removed
\* only if every process that is not the master has read it, and a spill file
\* of a pileup buffer has been removed only if the master has read it.
DeletionOrdered ==
    (Iterable /\ cfg.tmp /\ cfg.tell) =>
        \A name \in hist.removed :
            IF Merged /\ name = FinalFile
            THEN \A p \in Procs \ {Master} : <<p, name>> \in hist.reads
            ELSE <<Master, name>> \in hist.reads

\* the master has removed the final spill file of a round over several
\* positions, after the pileup files of every process
DeletionOrderedWitness ==
    /\ Iterable /\ cfg.tmp /\ cfg.tell /\ Size >= 2 /\ NProc >= 2
    /\ Merged /\ FinalFile \in hist.removed
    /\ Cardinality(hist.removed) = NProc + 1

\* ------------------------------------------------------------ C12
\* C12 (chunk-size contract): with a chunk size below 1, whether the range
\* allocation is requested through own_check / ownCheck or through get, no
\* claim is performed on the counter key and no process completes its call.
ChunkContract ==
    cfg.chunk < 1 =>
        /\ hist.claims = <<>>
        /\ \A p \in Procs : ~Done(p)

\* ------------------------------------------------------------ C13
\* the environment gives no value that int can parse for the variable
Unusable(var) == ~cfg.env[var.env_var].set \/ ~PyInt(cfg.env[var.env_var].text).ok

\* C13 (topology defaults): a call of _get_env that has ended has ended
\* without an error; every field whose environment value is absent or is not
\* parsed by int holds its default, with a warning for it exactly when
\* warnings are not suppressed; and is_master is True exactly when rank equals
\* master_rank.
TopologyDefaults ==
    \A p \in Procs :
        loc[p].pc # "call" =>
            /\ loc[p].err = "none"
            /\ \A i \in DOMAIN SBATCH_VARS :
                  Unusable(SBATCH_VARS[i]) =>
                      /\ loc[p].cls[SBATCH_VARS[i].class_var] = PyVal(SBATCH_VARS[i].default)
                      /\ SBATCH_VARS[i].env_var \in loc[p].warned <=> ~cfg.suppress_warnings
            /\ loc[p].cls.is_master <=> (loc[p].cls.rank = PyVal(cfg.master_rank))

\* ------------------------------------------------------------ C14
\* the prefix of the barrier round
Pref == loc[Master].pref

\* the processes whose arrival the master has dequeued from the wait key
Dequeued ==
    hist.arrived[Pref] \ {kvs[wkey(Pref)][i].by : i \in DOMAIN kvs[wkey(Pref)]}

\* the release tokens enqueued so far: those waiting and those taken
Tokens == Len(kvs[ckey(Pref)]) + Cardinality(hist.returned[Pref])

\* the warnings of the master are the dequeued arrivals that differ from its
\* own value; its first loop dequeues taskCount arrivals and its second
\* enqueues taskCount tokens, whatever the values
WarningsOnly ==
    /\ loc[Master].warned =
          Cardinality({p \in Dequeued : loc[p].value # loc[Master].value})
    /\ loc[Master].pc \in {"sy_put", "sy_collect"} => Tokens = 0
    /\ loc[Master].pc = "sy_release" => Cardinality(Dequeued) = NProc
    /\ loc[Master].pc \in {"sy_wait", "done"} =>
          Cardinality(Dequeued) = NProc /\ Tokens = NProc

\* C14 (barrier with mismatched witnesses): when every process calls
\* sync_processes on a fresh prefix and every process is scheduled, every
\* process eventually returns, whatever witness values they pass; at all times
\* the master has recorded one warning for each dequeued arrival whose value
\* differs from its own and no other, and it dequeues taskCount arrivals and
\* enqueues taskCount release tokens.
BarrierCompletes == <>AllDone /\ []WarningsOnly

\* every process has returned from a barrier at which some process passed a
\* value that differs from the master's, and the master has warned
BarrierCompletesWitness ==
    /\ cfg.api = "sync_processes" /\ AllDone
    /\ \E p \in Procs : loc[p].value # loc[Master].value
    /\ loc[Master].warned >= 1

\* ------------------------------------------------------------ C15
\* the processes whose claims are served first, in the order of the scenario,
\* and the lower bounds they are to get
ScenarioOrder == <<0, 1, 0>>
ScenarioLower == <<0, 3, 6>>

\* the claims served so far follow the order of the scenario
InScenario ==
    \A k \in 1 .. Len(ScenarioOrder) :
        k <= Len(hist.claims) => hist.claims[k].by = ScenarioOrder[k]

\* the worker the scenario expects to own position i
ScenarioOwner(i) == IF i \in {3, 4, 5} THEN 1 ELSE 0

\* C15 (allocation scenario): with chunk size 3 and 8 positions, in a run
\* where the claims on the counter are served in the order worker 0, worker 1,
\* worker 0, these claims get the lower bounds 0, 3 and 6 (worker 0 holds
\* [0,3) and then [6,9), worker 1 holds [3,6)), and every yield of ownCheck
\* is True exactly for worker 0 at positions 0,1,2,6,7 and for worker 1 at
\* positions 3,4,5.
AllocationScenario ==
    InScenario =>
        /\ \A k \in 1 .. Len(ScenarioOrder) :
              k <= Len(hist.claims) => hist.claims[k].lower = ScenarioLower[k]
        /\ \A p \in Procs : \A i \in 0 .. (Size - 1) :
              i < Len(hist.yields[p]) =>
                  (hist.yields[p][i + 1] <=> p = ScenarioOwner(i))

\* the three claims were served in the order of the scenario and workers 0
\* and 1 have stepped through all 8 positions
AllocationScenarioWitness ==
    /\ cfg.chunk = 3 /\ Size = 8
    /\ InScenario /\ Len(hist.claims) >= Len(ScenarioOrder)
    /\ Stepped(0) /\ Stepped(1)

\* ------------------------------------------------------------ C16
\* what get gives for a task that is not distributed: the value of the
\* graph, or the result of the function on its arguments
LocalValue == IF cfg.istuple THEN PyVal(ResultAt(0)) ELSE dsk_result

\* C16 (a task without a sequence is purely local): when the requested key
\* is no function tuple, or the task has no arguments, or none of them is a
\* list or tuple, no process performs a put, get or view on the KVS (every
\* key stays as it was and no process is ever at a KVS operation), the
\* function is invoked at most once in a process (once for a function tuple,
\* never for a value), and get returns that result directly.
PurelyLocal ==
    ~Iterable =>
        /\ kvs = EmptyKvs
        /\ \A p \in Procs :
              /\ loc[p].pc \in {"call", "done"}
              /\ hist.calls[p] <= 1
              /\ Done(p) =>
                    /\ loc[p].ret = <<LocalValue>>
                    /\ hist.calls[p] = IF cfg.istuple THEN 1 ELSE 0

\* every process has returned from get on a task with literal arguments only
PurelyLocalWitness ==
    /\ ~Iterable /\ cfg.istuple /\ Len(cfg.args) >= 2
    /\ AllDone

\* ------------------------------------------------------------ C17
\* the keys of the barrier release tokens
ReleaseKeys == {ckey(x) : x \in Prefs}

\* every initialization of the counter was the master's, and every value on
\* the final-data key or on a release key was enqueued by the master
MasterEnqueues ==
    /\ hist.inits \subseteq {Master}
    /\ \A key \in {FINAL_DATA} \cup ReleaseKeys :
          \A i \in DOMAIN kvs[key] : kvs[key][i].by = Master

\* a step that dequeues from the pileup key or from the final-data key is a
\* step of the master
MasterDequeues ==
    \A key \in {PILEUP_DATA, FINAL_DATA} :
        Len(kvs'[key]) < Len(kvs[key]) =>
            \A q \in Procs \ {Master} : loc'[q] = loc[q]

\* C17 (master-only publication): in a get round the initialization enqueue
\* of 0 on the counter key, every enqueue on the final-data key and every
\* enqueue of a barrier release token is performed by the master, and no
\* process other than the master dequeues from the pileup key or from the
\* final-data key.
MasterOnlyPublication == []MasterEnqueues /\ [][MasterDequeues]_vars

\* every process has returned from a round over several positions in which
\* the master initialized the counter, published and released both barriers
MasterOnlyPublicationWitness ==
    /\ Iterable /\ Size >= 2 /\ cfg.tmp /\ cfg.tell /\ NProc >= 2
    /\ AllDone
    /\ hist.inits = {Master}
    /\ hist.returned[TMP_FILE_SYNC] = Procs /\ hist.returned[POST_GET_SYNC] = Procs

\* ------------------------------------------------------------ C18
\* the task function has raised in process p
Crashed(p) == loc[p].err = "TaskError"

\* where a process that has not crashed is blocked: the master collecting
\* pileup buffers, any other waiting for the final value
BlockedInReduce(q) == loc[q].pc = IF q = Master THEN "pr_collect" ELSE "pr_view"

\* C18 (a crashed peer blocks the round): in a get round in which the task
\* function has raised in some process, which so never stages its pileup
\* buffer, no process has returned from get, and the round comes to rest only
\* with the master blocked collecting pileup buffers and every other process
\* blocked waiting for the final value.
CrashBlocks ==
    (\E p \in Procs : Crashed(p)) =>
        /\ \A q \in Procs : ~Done(q)
        /\ ~ENABLED NextCrash =>
              \A q \in Procs : ~Crashed(q) => BlockedInReduce(q)

\* one process has crashed after computing part of the space and the round
\* has come to rest with all the others blocked, after staging their buffers
CrashBlocksWitness ==
    /\ NProc >= 2 /\ Size >= 2
    /\ Cardinality({p \in Procs : Crashed(p)}) = 1
    /\ \A q \in Procs : ~Crashed(q) => BlockedInReduce(q)
    /\ Len(kvs[PILEUP_DATA]) + loc[Master].n = NProc - 1
    /\ ~ENABLED NextCrash

\* ------------------------------------------------------------ C19
\* the claims of process p, by their place in the order the KVS served them
ClaimsOf(p) == {k \in 1 .. Len(hist.claims) : hist.claims[k].by = p}

\* the latest claim of process p
LastClaim(p) == CHOOSE k \in ClaimsOf(p) : \A j \in ClaimsOf(p) : j <= k

\* C19 (claims behave as fetch-and-add): in one get round with chunk size C
\* the k-th claim served on the counter key (k = 0, 1, 2, ...) dequeues k*C,
\* whichever process makes it, and that process adopts [k*C, (k+1)*C); no two
\* claims get the same lower bound.
FetchAndAdd ==
    Iterable =>
        /\ \A k \in 1 .. Len(hist.claims) :
              hist.claims[k].lower = (k - 1) * cfg.chunk
        /\ \A j, k \in 1 .. Len(hist.claims) :
              j # k => hist.claims[j].lower # hist.claims[k].lower
        /\ \A p \in Procs :
              ClaimsOf(p) # {} =>
                  /\ loc[p].lower = (LastClaim(p) - 1) * cfg.chunk
                  /\ loc[p].upper = LastClaim(p) * cfg.chunk

\* several claims have been served in a round with a chunk size above 1, to
\* more than one process
FetchAndAddWitness ==
    /\ Iterable /\ cfg.chunk >= 2
    /\ Len(hist.claims) >= 3
    /\ \E p, q \in Procs : p # q /\ ClaimsOf(p) # {} /\ ClaimsOf(q) # {}

\* ------------------------------------------------------------ C20
\* the processes between the get and the put of a claim
InClaim == {p \in Procs : loc[p].pc = "oc_put"}

\* the master has made its final drain of the counter key
Drained == loc[Master].pc \in {"g_rmfinal", "done"}

\* C20 (claim mutual exclusion): at every moment of a get round the counter
\* key holds at most one value and at most one process is between the get
\* and the put of a claim; when the counter key is empty, the master has not
\* initialized it yet, or exactly one process is inside a claim, or the master
\* has made its final drain.
ClaimExclusion ==
    Iterable =>
        /\ Len(kvs[GET_COUNT]) <= 1
        /\ Cardinality(InClaim) <= 1
        /\ kvs[GET_COUNT] = <<>> =>
              \/ hist.inits = {}
              \/ Cardinality(InClaim) = 1
              \/ Drained

\* a process that is not the master is inside a claim, after earlier claims,
\* while another process waits for the counter
ClaimExclusionWitness ==
    /\ Iterable /\ NProc >= 2
    /\ \E p \in Procs \ {Master} : loc[p].pc = "oc_put"
    /\ \E q \in Procs : loc[q].pc = "oc_get"
    /\ kvs[GET_COUNT] = <<>> /\ Len(hist.claims) >= 2

\* ------------------------------------------------------------ C21
\* C21 (counter initialization): in one get round on a fresh counter key only
\* the master enqueues the initial 0, it has done so once it is past the start
\* of its allocator, no claim is served before that enqueue, and a process
\* whose first claim comes earlier cannot dequeue: it blocks.
CounterInitialized ==
    Iterable =>
        /\ hist.inits \subseteq {Master}
        /\ loc[Master].pc # "call" => hist.inits = {Master}
        /\ hist.claims # <<>> => hist.inits = {Master}
        /\ \A p \in Procs :
              (loc[p].pc = "oc_get" /\ hist.inits = {}) => ~ENABLED OwnCheckGet(p)

\* ------------------------------------------------------------ C22
\* the number of times process p occurs in the sequence of processes ps
Times(ps, p) == Cardinality({i \in DOMAIN ps : ps[i] = p})

\* the master is past the loop that collects the pileup buffers
Collected == loc[Master].pc \notin {"pr_put", "pr_collect"}

\* C22 (pileup accounting): in one process_results round every process
\* enqueues one buffer (or spill path) on the pileup key, no more; the buffers
\* the master has dequeued are the first ones enqueued, each dequeued once, and
\* the others are on the key; and when the master has finished collecting it
\* has dequeued exactly taskCount buffers and the pileup key is empty.
PileupAccounting ==
    /\ \A p \in Procs :
          Times(hist.staged, p) = IF loc[p].pc = "pr_put" THEN 0 ELSE 1
    /\ Len(hist.taken) <= Len(hist.staged)
    /\ hist.taken = SubSeq(hist.staged, 1, Len(hist.taken))
    /\ [i \in DOMAIN kvs[PILEUP_DATA] |-> kvs[PILEUP_DATA][i].by]
          = SubSeq(hist.staged, Len(hist.taken) + 1, Len(hist.staged))
    /\ Collected =>
          /\ Len(hist.taken) = NProc
          /\ \A p \in Procs : Times(hist.taken, p) = 1
          /\ kvs[PILEUP_DATA] = <<>>

\* the master has collected the spill files of every process, its own not
\* the first
PileupAccountingWitness ==
    /\ cfg.tmp /\ NProc >= 2
    /\ Collected /\ loc[Master].err = "none"
    /\ Len(hist.taken) = NProc /\ hist.taken[1] # Master

\* ------------------------------------------------------------ C23
\* the master has enqueued the final value and not yet removed it
Published ==
    \/ Merged /\ ~Done(Master)
    \/ loc[Master].err \in {"TypeError", "OSError"}

\* p has read the final value with view_key
Viewed(p) == loc[p].pc \notin {"call", "oc_get", "oc_put", "pr_put", "pr_view"}

\* the final-data key is empty before the master publishes and after it has
\* removed the value, and holds the one value of the master in between
FinalHeld ==
    Iterable =>
        /\ Published =>
              Len(kvs[FINAL_DATA]) = 1 /\ kvs[FINAL_DATA][1].by = Master
        /\ ~Published => kvs[FINAL_DATA] = <<>>

\* a step that changes the final-data key is the publication by the master or
\* its removal by the master at the end of get, every other process having
\* read the value; reading it leaves the key as it is
FinalViewOnly ==
    kvs'[FINAL_DATA] # kvs[FINAL_DATA] =>
        \/ /\ loc[Master].pc = "pr_publish"
           /\ kvs[FINAL_DATA] = <<>> /\ Len(kvs'[FINAL_DATA]) = 1
        \/ /\ loc[Master].pc = "g_rmfinal" /\ Done(Master)'
           /\ kvs'[FINAL_DATA] = <<>>
           /\ \A p \in Procs \ {Master} : Viewed(p)

\* C23 (final value stays available): in one get round the final-data key
\* holds exactly one value from the moment the master publishes it until the
\* master removes it, the other processes read it with view, which removes
\* nothing, and the master removes it only after each of them has read it.
FinalAvailable == []FinalHeld /\ [][FinalViewOnly]_vars

\* every process has returned from a round in which the other processes read
\* the final value, and the master has removed it
FinalAvailableWitness ==
    /\ Iterable /\ Size >= 1 /\ NProc >= 2 /\ cfg.tell
    /\ AllDone /\ kvs[FINAL_DATA] = <<>>
    /\ \A p \in Procs : loc[p].ret = <<MergedList>>

\* ------------------------------------------------------------ C24
\* C24 (quiescent state after a round): once every process has returned from
\* one get round over M >= 1 positions that started on an empty KVS, the
\* work-counter key, the pileup key, the final-data key and the wait and
\* continue keys of the barriers are all empty.
Quiescent ==
    (Iterable /\ Size >= 1 /\ AllDone) => \A key \in Keys : kvs[key] = <<>>

\* every process has returned from a spill round, which uses both barriers,
\* after the counter was claimed several times
QuiescentWitness ==
    /\ Iterable /\ Size >= 2 /\ NProc >= 2 /\ cfg.tmp
    /\ AllDone
    /\ Len(hist.claims) >= 3
    /\ \A x \in {TMP_FILE_SYNC, POST_GET_SYNC} : hist.returned[x] = Procs

\* ------------------------------------------------------------ C25
\* the number of arrivals the master has dequeued in its first loop, and of
\* release tokens it has enqueued in its second, by its position in the code
MasterTaken ==
    CASE loc[Master].pc = "sy_put" -> 0
      [] loc[Master].pc = "sy_collect" -> loc[Master].n
      [] OTHER -> NProc

MasterGiven ==
    CASE loc[Master].pc \in {"sy_put", "sy_collect"} -> 0
      [] loc[Master].pc = "sy_release" -> loc[Master].n
      [] OTHER -> NProc

\* the processes that have enqueued their witness value
Arrivals == {p \in Procs : loc[p].pc # "sy_put"}

\* each process past its put has enqueued one witness value, which is on the
\* wait key or was dequeued by the master; the release tokens enqueued are on
\* the continue key or were taken by a process that returned; no token is
\* enqueued before taskCount arrivals were dequeued; never more than taskCount
\* of either; both keys are empty once every process has returned
TokenCounts ==
    /\ hist.arrived[Pref] = Arrivals
    /\ Len(kvs[wkey(Pref)]) + MasterTaken = Cardinality(Arrivals)
    /\ \A i, j \in DOMAIN kvs[wkey(Pref)] :
          kvs[wkey(Pref)][i].by = kvs[wkey(Pref)][j].by => i = j
    /\ Len(kvs[ckey(Pref)]) + Cardinality(hist.returned[Pref]) = MasterGiven
    /\ hist.returned[Pref] = {p \in Procs : Done(p)}
    /\ MasterGiven >= 1 => MasterTaken = NProc
    /\ AllDone =>
          /\ MasterTaken = NProc /\ MasterGiven = NProc
          /\ kvs[wkey(Pref)] = <<>> /\ kvs[ckey(Pref)] = <<>>

\* a step that takes from the continue key takes one token and is the return
\* of one process that had not returned; a step that takes from the wait key
\* takes one value and is a pass of the master's first loop
OneTokenEach ==
    /\ Len(kvs'[ckey(Pref)]) < Len(kvs[ckey(Pref)]) =>
          /\ Len(kvs'[ckey(Pref)]) = Len(kvs[ckey(Pref)]) - 1
          /\ \E p \in Procs \ hist.returned[Pref] :
                hist'.returned[Pref] = hist.returned[Pref] \cup {p}
    /\ Len(kvs'[wkey(Pref)]) < Len(kvs[wkey(Pref)]) =>
          /\ Len(kvs'[wkey(Pref)]) = Len(kvs[wkey(Pref)]) - 1
          /\ loc[Master].pc = "sy_collect" /\ MasterTaken' = MasterTaken + 1

\* C25 (barrier token accounting): in one sync_processes round with
\* taskCount = N, N witness values are enqueued on the wait key and the master
\* dequeues N; it enqueues its first release token only after dequeuing all N
\* arrivals and enqueues N tokens; each process dequeues one; so both keys are
\* empty when all N processes have returned.
TokenAccounting == []TokenCounts /\ [][OneTokenEach]_vars

\* every process has returned from the barrier, the master not the last
TokenAccountingWitness ==
    /\ cfg.api = "sync_processes" /\ NProc >= 2
    /\ MasterGiven = NProc /\ Done(Master)
    /\ \E p \in Procs \ {Master} : loc[p].pc = "sy_wait"
    /\ Len(kvs[ckey(Pref)]) = NProc - Cardinality(hist.returned[Pref])

\* ------------------------------------------------------------ C26
\* C26 (round termination): in one get round from an empty KVS over M >= 1
\* positions with tmp_file_path = None and a task function that returns,
\* every process eventually returns from get when every process is scheduled,
\* whatever the order in which the claims of ranges are served.
RoundTerminates == Size >= 1 => <>AllDone

\* every process has returned from a direct round in which each of them
\* computed some position, the processes other than the master without the
\* merged list
RoundTerminatesWitness ==
    /\ Iterable /\ Size >= 2 /\ NProc >= 2 /\ ~cfg.tmp /\ ~cfg.tell
    /\ AllDone
    /\ \A p \in Procs : \E i \in 0 .. (Size - 1) : p \in Owners(i)

\* ------------------------------------------------------------ C27
\* C27 (repeated rounds terminate): when the same processes call get twice in
\* succession on an empty KVS, with tmp_file_path = None and M >= 1 positions,
\* the run comes to rest only when every process has returned from both
\* calls: no process is left blocked because another took a release token or
\* a final value of the other call.
RepeatedRoundsTerminate ==
    (Iterable /\ Size >= 1 /\ ~cfg.tmp /\ ~ENABLED Next) => AllDone

\* ------------------------------------------------------------ C28
\* the step is the dequeue of a claim of process p
ClaimStep(p) == loc[p].pc = "oc_get" /\ loc'[p].pc = "oc_put"

\* a claim is made at the position the generator is at, when that position is
\* not below the upper bound held, and the range adopted starts at that
\* position or later and ends after it
ClaimAhead ==
    \A p \in Procs :
        ClaimStep(p) =>
            /\ loc[p].checks = Len(hist.yields[p])
            /\ loc[p].checks >= loc[p].upper
            /\ loc[p].checks <= loc'[p].lower
            /\ loc'[p].upper > loc[p].checks

\* a process has made at most one claim for each position it has been at, and
\* has yielded True at every position it stepped through of a range it claimed
RangeYielded ==
    \A p \in Procs :
        /\ Cardinality(ClaimsOf(p)) <= loc[p].checks + 1
        /\ \A k \in ClaimsOf(p) :
              \A i \in hist.claims[k].lower .. (hist.claims[k].lower + cfg.chunk - 1) :
                  i < Len(hist.yields[p]) => hist.yields[p][i + 1]

\* C28 (no claimed position is skipped): whenever ownCheck performs a claim
\* while at position p, the range [lower, upper) it adopts has p <= lower and
\* upper > p; the process performs at most one claim per position and yields
\* True at every position of that range which it steps through.
NoClaimedSkipped == [][ClaimAhead]_vars /\ []RangeYielded

\* a process has claimed a range that starts after the position it was at,
\* and has stepped through that whole range
NoClaimedSkippedWitness ==
    /\ Iterable /\ cfg.chunk >= 2
    /\ \E p \in Procs : \E k \in ClaimsOf(p) :
          /\ hist.claims[k].lower + cfg.chunk <= Len(hist.yields[p])
          /\ hist.claims[k].lower >= 1
          /\ ~hist.yields[p][hist.claims[k].lower]

\* ------------------------------------------------------------ C29
\* C29 (result order independent of completion order): every element of the
\* list of gcv_dask that has been filled in is, at index k-1, the GCV value
\* computed for k, and the list gcv_dask returns has that value for every k
\* in 1..biggest-1, whatever order the futures finish and are handed over in.
ResultOrder ==
    cfg.api = "gcv_dask" =>
        /\ \A k \in DOMAIN loc.result_list :
              loc.result_list[k] # PyNone =>
                  loc.result_list[k] = PyVal(calculate_gcval(k))
        /\ loc.pc = "done" =>
              loc.ret = <<PyList([k \in 1 .. (cfg.biggest - 1) |->
                                     PyVal(calculate_gcval(k))])>>

\* gcv_dask has returned after the future of the largest k was handed over
\* first and the values differ between the k
ResultOrderWitness ==
    /\ cfg.api = "gcv_dask" /\ cfg.biggest >= 3
    /\ calculate_gcval(1) # calculate_gcval(cfg.biggest - 1)
    /\ loc.pc = "collect"
    /\ loc.result_list[cfg.biggest - 1] # PyNone
    /\ \A k \in 1 .. (cfg.biggest - 2) : loc.result_list[k] = PyNone

=============================================================================
